---------------------------- MODULE Spec2Model ----------------------------
(***************************************************************************)
(* Model of src/src/main.rs: the "MW3 Settings Tool".  The program finds   *)
(* the per-profile config files of the game, exports a filtered subset of  *)
(* their key/value settings to a JSON document, imports such a document    *)
(* back into the config files, and makes timestamped backup copies.        *)
(*                                                                         *)
(* A string is a sequence of one-character strings.  The text of a file is *)
(* the sequence of its segments between "\n" characters, so the empty file *)
(* is << <<>> >> and a text that ends in a newline has an empty last       *)
(* segment.                                                                *)
(***************************************************************************)
EXTENDS Naturals, Sequences, FiniteSets, TLC

(***************************************************************************)
(* Strings: the std operations the program calls.                          *)
(***************************************************************************)
WhiteSpace == {" ", "\t"}

Upper == <<"A","B","C","D","E","F","G","H","I","J","K","L","M",
           "N","O","P","Q","R","S","T","U","V","W","X","Y","Z">>

Lower == <<"a","b","c","d","e","f","g","h","i","j","k","l","m",
           "n","o","p","q","r","s","t","u","v","w","x","y","z">>

\* char::to_lowercase on the letters of the model's alphabet
LowerChar(c) ==
    IF \E i \in 1..Len(Upper) : Upper[i] = c
    THEN Lower[CHOOSE i \in 1..Len(Upper) : Upper[i] = c]
    ELSE c

\* str::to_lowercase
to_lowercase(s) == [i \in 1..Len(s) |-> LowerChar(s[i])]

\* str::starts_with
starts_with(s, p) ==
    /\ Len(p) <= Len(s)
    /\ \A i \in 1..Len(p) : s[i] = p[i]

\* str::ends_with
ends_with(s, p) ==
    /\ Len(p) <= Len(s)
    /\ \A i \in 1..Len(p) : s[Len(s) - Len(p) + i] = p[i]

\* str::contains with a string pattern
contains(s, p) ==
    \E i \in 0..Len(s) :
        /\ i + Len(p) <= Len(s)
        /\ \A j \in 1..Len(p) : s[i + j] = p[j]

\* str::contains with a char pattern
contains_char(s, c) == \E i \in 1..Len(s) : s[i] = c

\* str::trim_start
trim_start(s) ==
    IF \A i \in 1..Len(s) : s[i] \in WhiteSpace
    THEN << >>
    ELSE LET first == CHOOSE i \in 1..Len(s) :
                          /\ s[i] \notin WhiteSpace
                          /\ \A j \in 1..(i - 1) : s[j] \in WhiteSpace
         IN  SubSeq(s, first, Len(s))

\* str::trim_end
trim_end(s) ==
    IF \A i \in 1..Len(s) : s[i] \in WhiteSpace
    THEN << >>
    ELSE LET last == CHOOSE i \in 1..Len(s) :
                         /\ s[i] \notin WhiteSpace
                         /\ \A j \in (i + 1)..Len(s) : s[j] \in WhiteSpace
         IN  SubSeq(s, 1, last)

\* str::trim
trim(s) == trim_end(trim_start(s))

\* str::split_once('='): the parts before and after the first '=', or none
split_once(s) ==
    IF ~contains_char(s, "=")
    THEN [some |-> FALSE]
    ELSE LET at == CHOOSE i \in 1..Len(s) :
                       /\ s[i] = "="
                       /\ \A j \in 1..(i - 1) : s[j] # "="
         IN  [some |-> TRUE,
              k |-> SubSeq(s, 1, at - 1),
              v |-> SubSeq(s, at + 1, Len(s))]

\* format!("{} = {}", k, v)
format_line(k, v) == k \o <<" ", "=", " ">> \o v

\* str::lines: the segments, without a final empty one, each without a
\* trailing "\r"
StripCR(l) ==
    IF Len(l) > 0 /\ l[Len(l)] = "\r" THEN SubSeq(l, 1, Len(l) - 1) ELSE l

str_lines(text) ==
    LET segs == IF text[Len(text)] = << >>
                THEN SubSeq(text, 1, Len(text) - 1)
                ELSE text
    IN  [i \in 1..Len(segs) |-> StripCR(segs[i])]

\* lines.join("\n"): the text whose segments are the lines
join_lines(lines) == IF lines = << >> THEN << << >> >> ELSE lines

(***************************************************************************)
(* HashMap<String, String> as a function on its key set.                   *)
(***************************************************************************)
EmptyMap == << >>

\* HashMap::insert
insert(m, k, v) ==
    [x \in (DOMAIN m) \cup {k} |-> IF x = k THEN v ELSE m[x]]


(***************************************************************************)
(* JSON documents.  A JSON value is a string, a number or an object; the   *)
(* file the user picks is missing or holds a value.                        *)
(***************************************************************************)
JStr(s) == [t |-> "str", s |-> s]

JNum(n) == [t |-> "num", n |-> n]

JObj(f) == [t |-> "obj", f |-> f]

NoFile == [kind |-> "missing"]

JsonText(v) == [kind |-> "json", value |-> v]

\* serde_json::to_string_pretty(&json!(all_settings))
to_json(all_settings) ==
    JObj([b \in DOMAIN all_settings |->
            JObj([k \in DOMAIN all_settings[b] |-> JStr(all_settings[b][k])])])

\* a deserializer that drops what does not fit instead of failing
from_str_lenient(v) ==
    IF v.t = "obj"
    THEN LET sections == {b \in DOMAIN v.f : v.f[b].t = "obj"}
         IN  [ok |-> TRUE,
              map |-> [b \in sections |->
                         [k \in {x \in DOMAIN v.f[b].f : v.f[b].f[x].t = "str"} |->
                             v.f[b].f[k].s]]]
    ELSE [ok |-> FALSE]

\* serde_json::from_str::<HashMap<String, HashMap<String, String>>>
from_str(v) ==
    IF /\ v.t = "obj"
       /\ \A b \in DOMAIN v.f :
            /\ v.f[b].t = "obj"
            /\ \A k \in DOMAIN v.f[b].f : v.f[b].f[k].t = "str"
    THEN [ok |-> TRUE,
          map |-> [b \in DOMAIN v.f |->
                     [k \in DOMAIN v.f[b].f |-> v.f[b].f[k].s]]]
    ELSE [ok |-> FALSE]

\* lines 270-271 of import_from_json: read the document and deserialize it
read_document(json_file) ==
    IF json_file.kind = "json" THEN from_str(json_file.value) ELSE [ok |-> FALSE]

(***************************************************************************)
(* File access.  mode[p] is "rw", "ro" (the read-only attribute is set) or *)
(* "locked" (another process holds the file: it can be neither read nor    *)
(* written).                                                               *)
(***************************************************************************)
unreadable_in(mode) == {p \in DOMAIN mode : mode[p] = "locked"}

unwritable_in(mode) == {p \in DOMAIN mode : mode[p] # "rw"}

(***************************************************************************)
(* The config files.  A path is <<profile directory, file name>>.          *)
(***************************************************************************)
file_name(path) == path[2]

dot_g == <<"g", ".">>

dot_txt0 == <<".", "t", "x", "t", "0">>

dot_txt1 == <<".", "t", "x", "t", "1">>

dot_bak == <<".", "b", "a", "k", "_">>

\* the file name test of find_cod_settings
is_settings_name(name) ==
    starts_with(name, dot_g) /\ (ends_with(name, dot_txt0) \/ ends_with(name, dot_txt1))

\* the paths find_cod_settings collects from a file system
settings_paths(files) == {p \in DOMAIN files : is_settings_name(file_name(p))}

\* read_dir lists the profile directories in some order and the entries of
\* each in some order: the files of one directory are listed together
Enumerations(paths) ==
    {s \in [1..Cardinality(paths) -> paths] :
        /\ \A p \in paths : \E i \in DOMAIN s : s[i] = p
        /\ \A i, j, m \in DOMAIN s :
              (i < m /\ m < j /\ s[i][1] = s[j][1]) => s[m][1] = s[i][1]}

\* parse_cod_settings on the text of a readable file
RECURSIVE parse_lines(_, _)
parse_lines(lines, map) ==
    IF lines = << >>
    THEN map
    ELSE LET kv == split_once(Head(lines))
         IN  parse_lines(Tail(lines),
                         IF kv.some THEN insert(map, trim(kv.k), trim(kv.v)) ELSE map)

parse_cod_settings(text) == parse_lines(str_lines(text), EmptyMap)

\* a filter that compares the key as it is written
filter_settings_case_sensitive(settings, filters) ==
    LET keep == {k \in DOMAIN settings :
                    \E i \in DOMAIN filters : contains(k, filters[i])}
    IN  [k \in keep |-> settings[k]]

\* the filter of export_to_json (lines 255-259)
filter_settings(settings, filters) ==
    LET keep == {k \in DOMAIN settings :
                    \E i \in DOMAIN filters : contains(to_lowercase(k), filters[i])}
    IN  [k \in keep |-> settings[k]]

\* the loop of export_to_json: one insert per file that can be parsed
RECURSIVE export_settings(_, _, _, _, _)
export_settings(settings_files, files, mode, filters, all_settings) ==
    IF settings_files = << >>
    THEN all_settings
    ELSE LET file == Head(settings_files)
             next == IF file \in unreadable_in(mode)
                     THEN all_settings
                     ELSE insert(all_settings, file_name(file),
                                 filter_settings(parse_cod_settings(files[file]), filters))
         IN  export_settings(Tail(settings_files), files, mode, filters, next)

(***************************************************************************)
(* The merge of import_from_json.                                          *)
(***************************************************************************)
\* the test of line 289
line_matches(line, k) == starts_with(trim_start(line), k) /\ contains_char(line, "=")

\* lines 287-299: one key of the section
merge_key(lines, k, v) ==
    IF \E i \in DOMAIN lines : line_matches(lines[i], k)
    THEN LET at == CHOOSE i \in DOMAIN lines :
                       /\ line_matches(lines[i], k)
                       /\ \A j \in 1..(i - 1) : ~line_matches(lines[j], k)
         IN  [lines EXCEPT ![at] = format_line(k, v)]
    ELSE Append(lines, format_line(k, v))

\* lines 285-300: the keys of the section in the map's iteration order
RECURSIVE merge_settings(_, _, _, _)
merge_settings(lines, settings, order, updated) ==
    IF order = << >>
    THEN [lines |-> lines, updated |-> updated]
    ELSE merge_settings(merge_key(lines, Head(order), settings[Head(order)]),
                        settings, Tail(order), TRUE)

\* lines 273-306: the loop over the files.  orders[b] is the iteration order
\* of section b.  A file that cannot be read, or cannot be written, ends the
\* function with the error (the ? operator).  written collects the files
\* fs::write was called on.
RECURSIVE import_files(_, _, _, _, _, _)
import_files(settings_files, imported, orders, files, mode, written) ==
    IF settings_files = << >>
    THEN [ok |-> TRUE, files |-> files, written |-> written]
    ELSE LET file == Head(settings_files)
             b == file_name(file)
         IN  IF b \notin DOMAIN imported
             THEN import_files(Tail(settings_files), imported, orders,
                               files, mode, written)
             ELSE IF file \in unreadable_in(mode)
             THEN [ok |-> FALSE, files |-> files, written |-> written]
             ELSE LET m == merge_settings(str_lines(files[file]), imported[b],
                                          orders[b], FALSE)
                  IN  IF ~m.updated
                      THEN import_files(Tail(settings_files), imported, orders,
                                        files, mode, written)
                      ELSE IF file \in unwritable_in(mode)
                      THEN [ok |-> FALSE, files |-> files, written |-> written]
                      ELSE import_files(Tail(settings_files), imported, orders,
                                        [files EXCEPT ![file] = join_lines(m.lines)],
                                        mode, written \cup {file})

\* the iteration orders a HashMap can give the keys of a section
Orders(keys) ==
    {s \in [1..Cardinality(keys) -> keys] : \A k \in keys : \E i \in DOMAIN s : s[i] = k}


(***************************************************************************)
(* The backup loop of the Backup button (lines 129-148).                   *)
(***************************************************************************)
\* settings_file.with_file_name(format!("{}.bak_{}", file_name, timestamp))
backup_path(path, timestamp) == <<path[1], file_name(path) \o dot_bak \o timestamp>>

\* fs::copy fails when the source cannot be read or the target cannot be written
copy_fails(file, target, mode) ==
    file \in unreadable_in(mode) \/ target \in unwritable_in(mode)

\* a loop that ends at the first copy that fails
RECURSIVE backup_files_stop(_, _, _, _)
backup_files_stop(settings_files, timestamp, files, mode) ==
    IF settings_files = << >>
    THEN [files |-> files, mode |-> mode,
          success_count |-> 0, error_messages |-> << >>]
    ELSE LET file == Head(settings_files)
             target == backup_path(file, timestamp)
         IN  IF copy_fails(file, target, mode)
             THEN [files |-> files, mode |-> mode,
                   success_count |-> 0, error_messages |-> <<file_name(file)>>]
             ELSE LET rest == backup_files_stop(
                                 Tail(settings_files), timestamp,
                                 [p \in (DOMAIN files) \cup {target} |->
                                     IF p = target THEN files[file] ELSE files[p]],
                                 [p \in (DOMAIN mode) \cup {target} |->
                                     IF p = target THEN mode[file] ELSE mode[p]])
                  IN  [rest EXCEPT !.success_count = rest.success_count + 1]

\* fs::copy writes the target's content and gives it the source's permissions
RECURSIVE backup_files(_, _, _, _)
backup_files(settings_files, timestamp, files, mode) ==
    IF settings_files = << >>
    THEN [files |-> files, mode |-> mode,
          success_count |-> 0, error_messages |-> << >>]
    ELSE LET file == Head(settings_files)
             target == backup_path(file, timestamp)
             failed == copy_fails(file, target, mode)
             copied == IF failed
                       THEN files
                       ELSE [p \in (DOMAIN files) \cup {target} |->
                               IF p = target THEN files[file] ELSE files[p]]
             modes == IF failed
                      THEN mode
                      ELSE [p \in (DOMAIN mode) \cup {target} |->
                               IF p = target THEN mode[file] ELSE mode[p]]
             rest == backup_files(Tail(settings_files), timestamp, copied, modes)
         IN  [files |-> rest.files, mode |-> rest.mode,
              success_count |-> rest.success_count + (IF failed THEN 0 ELSE 1),
              error_messages |-> IF failed
                                 THEN <<file_name(file)>> \o rest.error_messages
                                 ELSE rest.error_messages]


(***************************************************************************)
(* The inputs of the model: file names, setting names, values, the config  *)
(* files the program starts with and the documents the user can pick.      *)
(***************************************************************************)
mouse == <<"m", "o", "u", "s", "e">>

fov == <<"f", "o", "v">>

brightness == <<"b", "r", "i", "g", "h", "t", "n", "e", "s", "s">>

hdr == <<"h", "d", "r">>

adssensitivity == <<"a", "d", "s", "s", "e", "n", "s", "i", "t", "i", "v", "i", "t", "y">>

gamepad == <<"g", "a", "m", "e", "p", "a", "d">>

sprint == <<"s", "p", "r", "i", "n", "t">>

\* the filters of the Export button (line 61)
filters == <<mouse, fov, brightness, hdr, adssensitivity, gamepad, sprint>>

fov_s == <<"f", "o", "v", "_", "s">>

FOV == <<"F", "O", "V">>

vol == <<"v", "o", "l">>

one == <<"1">>

two == <<"2">>

nine == <<"9">>

g_txt0 == <<"g", ".", "l", ".", "t", "x", "t", "0">>

g_txt1 == <<"g", ".", "l", ".", "t", "x", "t", "1">>

\* a line as the game writes it, k=v, and a comment line
raw_line(k, v) == k \o <<"=">> \o v

comment == <<"#", " ", "c">>

\* config file texts (the segments between the newlines): the game's own
\* k=v lines with a setting name that starts with another's, and a file with
\* CRLF line ends, an indented line and a comment
game_text ==
    << raw_line(fov_s, one), raw_line(fov, two), raw_line(vol, one), << >> >>

crlf_text ==
    << <<" ">> \o format_line(fov_s, one) \o <<"\r">>, comment \o <<"\r">>, << >> >>

\* the profile directories hold one config file each: of the same name, or
\* of different names
InitialDisks ==
    { [p \in {<<"p1", g_txt0>>, <<"p2", n>>} |->
          IF p[1] = "p1" THEN game_text ELSE crlf_text] : n \in {g_txt0, g_txt1} }

Modes == {"rw", "ro", "locked"}

\* the values the user, or the game, sets a setting to
EditValues == {nine}

\* the number of steps (clicks, and changes made by the environment) of a run
MaxSteps == 3

\* the number of distinct seconds Local::now() shows when Backup is clicked
MaxTime == 1

Digits == <<"1", "2", "3", "4", "5", "6", "7", "8", "9">>

Timestamps == {<<Digits[t]>> : t \in 1..MaxTime}

Section(m) == JObj([k \in DOMAIN m |-> JStr(m[k])])

\* the files the user can pick in the Import dialog, besides the exported one
\* (which is missing until the first export): one with a number for a value,
\* which does not deserialize, and documents
\* with an empty section, with one setting, with a setting whose name starts
\* with another's, and with settings for both file names
ExternalDocs ==
    { JsonText(JObj([b \in {g_txt0} |->
                        JObj([k \in {fov, hdr} |-> IF k = fov THEN JStr(one) ELSE JNum(7)])])),
      JsonText(JObj([b \in {g_txt0} |-> Section(EmptyMap)])),
      JsonText(JObj([b \in {g_txt0} |-> Section([k \in {fov} |-> one])])),
      JsonText(JObj([b \in {g_txt0} |->
                        Section([k \in {fov, fov_s} |-> IF k = fov THEN one ELSE two])])),
      JsonText(JObj([b \in {g_txt0, g_txt1} |->
                        Section([k \in {hdr, vol} |-> IF k = hdr THEN one ELSE two])])) }

Cancelled == [kind |-> "none"]

(***************************************************************************)
(* The state.                                                              *)
(***************************************************************************)
VARIABLES
    disk,          \* the files under the players directory: path -> text
    mode,          \* path -> access mode
    export_file,   \* cod_settings_export.json
    status_text,   \* SettingsApp::status_text
    op,            \* history: what the last step did
    steps,         \* the number of steps taken so far
    settings,      \* the inputs and the result of the filter, for SpecFilter
    categories,
    filtered

vars == <<disk, mode, export_file, status_text, op, steps, settings, categories, filtered>>

Status(msg) == [msg |-> msg, success_count |-> 0, error_messages |-> << >>]

Op(name, json, ok, written, fresh) ==
    [name |-> name, json |-> json, ok |-> ok, written |-> written, fresh |-> fresh]

Init ==
    /\ disk \in InitialDisks
    /\ mode = [p \in DOMAIN disk |-> "rw"]
    /\ export_file = NoFile
    /\ status_text = Status("")
    /\ op = Op("start", NoFile, TRUE, {}, FALSE)
    /\ steps = 0
    /\ settings = EmptyMap
    /\ categories = << >>
    /\ filtered = EmptyMap

\* every step counts, up to MaxSteps
Step ==
    /\ steps < MaxSteps
    /\ steps' = steps + 1

\* find_cod_settings: the error when no file is found
found_none == settings_paths(disk) = {}

(***************************************************************************)
(* The Export button (lines 57-83).                                        *)
(***************************************************************************)
Export ==
    /\ Step
    /\ IF found_none
       THEN /\ status_text' = Status("Could not find settings files")
            /\ op' = Op("export", NoFile, FALSE, {}, op.fresh)
            /\ UNCHANGED export_file
       ELSE \E settings_files \in Enumerations(settings_paths(disk)), write_ok \in BOOLEAN :
              LET all_settings == export_settings(settings_files, disk, mode,
                                                  filters, EmptyMap)
              IN  IF write_ok
                  THEN /\ export_file' = JsonText(to_json(all_settings))
                       /\ status_text' = Status("Settings exported to cod_settings_export.json")
                       /\ op' = Op("export", NoFile, TRUE, {}, TRUE)
                  ELSE /\ UNCHANGED export_file
                       /\ status_text' = Status("Export failed")
                       /\ op' = Op("export", NoFile, FALSE, {}, op.fresh)
    /\ UNCHANGED <<disk, mode, settings, categories, filtered>>

(***************************************************************************)
(* The Import button (lines 86-118).                                       *)
(***************************************************************************)
Import ==
    /\ Step
    /\ \E json \in {Cancelled, export_file} \cup ExternalDocs :
         IF json = Cancelled
         THEN /\ status_text' = Status("No JSON selected.")
              /\ op' = Op("import", json, FALSE, {}, op.fresh)
              /\ UNCHANGED disk
         ELSE IF found_none
         THEN /\ status_text' = Status("Could not find settings files")
              /\ op' = Op("import", json, FALSE, {}, op.fresh)
              /\ UNCHANGED disk
         ELSE LET doc == read_document(json)
              IN  IF ~doc.ok
                  THEN /\ status_text' = Status("Import failed")
                       /\ op' = Op("import", json, FALSE, {}, op.fresh)
                       /\ UNCHANGED disk
                  ELSE \E settings_files \in Enumerations(settings_paths(disk)),
                          orders \in [DOMAIN doc.map -> UNION {Orders(DOMAIN doc.map[b]) :
                                                                  b \in DOMAIN doc.map}] :
                         /\ \A b \in DOMAIN doc.map : orders[b] \in Orders(DOMAIN doc.map[b])
                         /\ LET r == import_files(settings_files, doc.map, orders,
                                                  disk, mode, {})
                            IN  /\ disk' = r.files
                                /\ status_text' = Status(IF r.ok
                                                         THEN "Settings imported successfully!"
                                                         ELSE "Import failed")
                                /\ op' = Op("import", json, r.ok, r.written,
                                            op.fresh /\ r.written = {})
    /\ UNCHANGED <<mode, export_file, settings, categories, filtered>>

(***************************************************************************)
(* The Backup button (lines 121-161).                                      *)
(***************************************************************************)
Backup ==
    /\ Step
    /\ IF found_none
       THEN /\ status_text' = Status("Could not find settings files")
            /\ op' = Op("backup", NoFile, FALSE, {}, op.fresh)
            /\ UNCHANGED <<disk, mode>>
       ELSE \E settings_files \in Enumerations(settings_paths(disk)),
               timestamp \in Timestamps :
              LET r == backup_files(settings_files, timestamp, disk, mode)
              IN  /\ disk' = r.files
                  /\ mode' = r.mode
                  /\ status_text' =
                        [msg |-> IF r.error_messages = << >>
                                 THEN "Successfully backed up"
                                 ELSE "Backed up",
                         success_count |-> r.success_count,
                         error_messages |-> r.error_messages]
                  /\ op' = Op("backup", NoFile, TRUE, {}, op.fresh)
    /\ UNCHANGED <<export_file, settings, categories, filtered>>

(***************************************************************************)
(* The environment: the user, or the game, changes the value of a setting  *)
(* in a config file, and files become locked, read-only or free.           *)
(***************************************************************************)
\* the key=value assignment of segment seg with its value replaced by v
with_value(seg, v) ==
    LET kv == split_once(seg)
        cr == IF Len(seg) > 0 /\ seg[Len(seg)] = "\r" THEN <<"\r">> ELSE << >>
    IN  kv.k \o <<"=">> \o v \o cr

\* the keys the export document holds for file p
exported_keys(p) ==
    IF export_file.kind = "json" /\ file_name(p) \in DOMAIN export_file.value.f
    THEN DOMAIN export_file.value.f[file_name(p)].f
    ELSE {}

\* the segments of file p that hold an assignment
assignments(p) == {i \in DOMAIN disk[p] : contains_char(disk[p][i], "=")}

EditValue ==
    /\ Step
    /\ \E p \in settings_paths(disk), v \in EditValues :
         \E changed \in SUBSET assignments(p) :
            /\ changed # {}
            /\ \A i \in changed : with_value(disk[p][i], v) # disk[p][i]
            /\ disk' = [disk EXCEPT ![p] =
                           [i \in DOMAIN disk[p] |->
                               IF i \in changed THEN with_value(disk[p][i], v)
                                                ELSE disk[p][i]]]
            /\ op' = Op("edit", NoFile, TRUE, {},
                        /\ op.fresh
                        /\ \A i \in changed :
                              trim(split_once(disk[p][i]).k) \in exported_keys(p))
    /\ UNCHANGED <<mode, export_file, status_text, settings, categories, filtered>>

SetMode ==
    /\ Step
    /\ \E p \in settings_paths(disk), m \in Modes :
            /\ p[1] = "p1"
            /\ m # mode[p]
            /\ mode' = [mode EXCEPT ![p] = m]
            /\ op' = Op("mode", NoFile, TRUE, {}, op.fresh)
    /\ UNCHANGED <<disk, export_file, status_text, settings, categories, filtered>>

Next == Export \/ Import \/ Backup \/ EditValue \/ SetMode

Spec == Init /\ [][Next]_vars


(***************************************************************************)
(* The filter on its own: any settings map, any category list.             *)
(***************************************************************************)
\* the longest category list
MaxCategories == 2

FilterKeys == {fov, FOV, fov_s, vol}

FilterCategories == {fov, FOV, <<"o">>, << >>}

SettingsMaps == UNION {[K -> {one, two}] : K \in SUBSET FilterKeys}

CategoryLists == UNION {[1..n -> FilterCategories] : n \in 0..MaxCategories}

InitFilter ==
    /\ disk = << >>
    /\ mode = << >>
    /\ export_file = NoFile
    /\ status_text = Status("")
    /\ op = Op("start", NoFile, TRUE, {}, FALSE)
    /\ steps = 0
    /\ settings \in SettingsMaps
    /\ categories \in CategoryLists
    /\ filtered = EmptyMap

ApplyFilter ==
    /\ op.name = "start"
    /\ filtered' = filter_settings(settings, categories)
    /\ op' = Op("filter", NoFile, TRUE, {}, FALSE)
    /\ steps' = steps + 1
    /\ UNCHANGED <<disk, mode, export_file, status_text, settings, categories>>

SpecFilter == InitFilter /\ [][ApplyFilter]_vars


(***************************************************************************)
(* What the claims speak of.                                               *)
(***************************************************************************)
\* the export schema: a mapping basename -> (setting name -> string value)
IsSettingsDocument(json) ==
    /\ json.kind = "json"
    /\ json.value.t = "obj"
    /\ \A b \in DOMAIN json.value.f :
          /\ json.value.f[b].t = "obj"
          /\ \A k \in DOMAIN json.value.f[b].f : json.value.f[b].f[k].t = "str"

HasSection(json, p) ==
    IsSettingsDocument(json) /\ file_name(p) \in DOMAIN json.value.f

\* the section of file p in a settings document, as a map
SectionOf(json, p) ==
    [k \in DOMAIN json.value.f[file_name(p)].f |-> json.value.f[file_name(p)].f[k].s]

\* the text the merge of a section leaves for one iteration order
Merged(text, section, order) ==
    join_lines(merge_settings(str_lines(text), section, order, FALSE).lines)

\* no key of the section changes a line or appends one
ChangesNothing(text, section) ==
    \A k \in DOMAIN section :
        merge_key(str_lines(text), k, section[k]) = str_lines(text)

\* no other discovered file has the name of p
UniqueName(p) ==
    \A q \in settings_paths(disk) : q # p => file_name(q) # file_name(p)

\* the step is a run of import_from_json on a picked document
ImportRan == op'.name = "import" /\ op'.json # Cancelled /\ ~found_none

(***************************************************************************)
(* C1.  Import is idempotent: a second import of the same document leaves  *)
(* every config file with the line sequence the first import left, and     *)
(* appends no line.                                                        *)
(***************************************************************************)
C1_ImportIdempotent ==
    [][(/\ op.name = "import" /\ op.ok
        /\ ImportRan /\ op'.ok
        /\ op'.json = op.json)
       => \A p \in settings_paths(disk) : str_lines(disk'[p]) = str_lines(disk[p])]_vars

(***************************************************************************)
(* C2.  Export, change the values of exported keys, import the exported    *)
(* document: afterwards every exported key parses to its exported value in *)
(* the file, and every line whose key was not exported is unchanged.       *)
(* op.fresh says that the export document is the last export's and that    *)
(* only values of exported keys were changed since; the values of the      *)
(* exported keys were changed when each parses to another value than the   *)
(* exported one.                                                           *)
(***************************************************************************)
C2_ExportImportRoundTrip ==
    [][(/\ ImportRan /\ op'.ok
        /\ op.fresh
        /\ op'.json = export_file)
       => \A p \in settings_paths(disk) :
            (/\ UniqueName(p)
             /\ HasSection(export_file, p)
             /\ \A k \in DOMAIN SectionOf(export_file, p) :
                   /\ k \in DOMAIN parse_cod_settings(disk[p])
                   /\ parse_cod_settings(disk[p])[k] # SectionOf(export_file, p)[k]) =>
                LET section == SectionOf(export_file, p)
                    before == str_lines(disk[p])
                    after == str_lines(disk'[p])
                    parsed == parse_cod_settings(disk'[p])
                IN  /\ \A k \in DOMAIN section :
                          k \in DOMAIN parsed /\ parsed[k] = section[k]
                    /\ \A i \in DOMAIN before :
                          (/\ split_once(before[i]).some
                           /\ trim(split_once(before[i]).k) \notin DOMAIN section)
                          => (i \in DOMAIN after /\ after[i] = before[i])]_vars

(***************************************************************************)
(* C3.  Missing keys are appended: when no key of the file's section is a  *)
(* key of the file, import appends one line "k = v" per key of the section *)
(* at the end and leaves every earlier line as it was, where it was.       *)
(***************************************************************************)
C3_MissingKeyAppended ==
    [][(ImportRan /\ op'.ok)
       => \A p \in settings_paths(disk) :
            (/\ HasSection(op'.json, p)
             /\ DOMAIN SectionOf(op'.json, p) # {}
             /\ DOMAIN SectionOf(op'.json, p) \cap DOMAIN parse_cod_settings(disk[p]) = {})
            => LET section == SectionOf(op'.json, p)
                   before == str_lines(disk[p])
                   after == str_lines(disk'[p])
               IN  /\ Len(after) = Len(before) + Cardinality(DOMAIN section)
                   /\ SubSeq(after, 1, Len(before)) = before
                   /\ \A k \in DOMAIN section :
                         \E i \in (Len(before) + 1)..Len(after) :
                            after[i] = format_line(k, section[k])]_vars

(***************************************************************************)
(* C4.  After an export the document has exactly one section per           *)
(* discovered (readable) config file, and the section of each file holds   *)
(* that file's filtered settings.                                          *)
(***************************************************************************)
C4_OneSectionPerFile ==
    (op.name = "export" /\ op.ok) =>
        LET readable == settings_paths(disk) \ unreadable_in(mode)
        IN  /\ IsSettingsDocument(export_file)
            /\ Cardinality(DOMAIN export_file.value.f) = Cardinality(readable)
            /\ \A p \in readable :
                  /\ HasSection(export_file, p)
                  /\ SectionOf(export_file, p)
                       = filter_settings(parse_cod_settings(disk[p]), filters)

(***************************************************************************)
(* C5.  As claimed: import writes a file only when the document has a      *)
(* section for it and a key of the section changed a line or appended one. *)
(***************************************************************************)
C5_WrittenOnlyWhenChanged ==
    [][ImportRan
       => \A p \in op'.written :
            /\ HasSection(op'.json, p)
            /\ ~ChangesNothing(disk[p], SectionOf(op'.json, p))]_vars

(***************************************************************************)
(* What the code does instead: it writes a file whenever the document has  *)
(* a section for it that holds at least one key.                           *)
(***************************************************************************)
WrittenOnlyWithNonEmptySection ==
    [][op'.name = "import"
       => /\ DOMAIN disk' = DOMAIN disk
          /\ \A p \in DOMAIN disk :
                (p \in op'.written \/ disk'[p] # disk[p])
                => /\ p \in settings_paths(disk)
                   /\ ImportRan
                   /\ HasSection(op'.json, p)
                   /\ DOMAIN SectionOf(op'.json, p) # {}]_vars

(***************************************************************************)
(* C6.  When import fails on one file, every other discovered file that    *)
(* has a section in the document is still merged.                          *)
(***************************************************************************)
C6_FailureLeavesOthersMerged ==
    [][(ImportRan /\ IsSettingsDocument(op'.json) /\ ~op'.ok)
       => \A p \in settings_paths(disk) :
            (/\ mode[p] = "rw"
             /\ HasSection(op'.json, p)
             /\ DOMAIN SectionOf(op'.json, p) # {})
            => \E order \in Orders(DOMAIN SectionOf(op'.json, p)) :
                  disk'[p] = Merged(disk[p], SectionOf(op'.json, p), order)]_vars

(***************************************************************************)
(* C7.  Backup is a best-effort batch: over the n discovered files the     *)
(* success count and the error entries add up to n, every file either has  *)
(* a copy of its text under a backup name or an error entry, and every     *)
(* file that existed keeps its text.                                       *)
(***************************************************************************)
C7_BackupBestEffort ==
    [][(op'.name = "backup" /\ ~found_none)
       => /\ status_text'.success_count + Len(status_text'.error_messages)
               = Cardinality(settings_paths(disk))
          /\ \A p \in settings_paths(disk) :
                \/ \E t \in Timestamps :
                      /\ backup_path(p, t) \in DOMAIN disk'
                      /\ disk'[backup_path(p, t)] = disk[p]
                \/ \E i \in DOMAIN status_text'.error_messages :
                      status_text'.error_messages[i] = file_name(p)
          /\ \A p \in settings_paths(disk) : disk'[p] = disk[p]
          /\ settings_paths(disk') = settings_paths(disk)]_vars

\* a backup over two files, one of them locked: one copy, one error entry
C7_Witness ==
    /\ op.name = "backup"
    /\ status_text.success_count = 1
    /\ Len(status_text.error_messages) = 1
    /\ \E p \in settings_paths(disk), t \in Timestamps : backup_path(p, t) \in DOMAIN disk

(***************************************************************************)
(* C8.  As claimed: the filter keeps exactly the pairs whose key contains  *)
(* a category when the case of both is ignored.                            *)
(***************************************************************************)
C8_FilterCaseInsensitive ==
    op.name = "filter" =>
        /\ DOMAIN filtered =
              {k \in DOMAIN settings :
                  \E i \in DOMAIN categories :
                      contains(to_lowercase(k), to_lowercase(categories[i]))}
        /\ \A k \in DOMAIN filtered : filtered[k] = settings[k]

(***************************************************************************)
(* C8, amended.  The filter keeps exactly the pairs of the map whose       *)
(* lower-cased key contains a category, taken as it is written, and keeps  *)
(* their values; with no category it keeps nothing.                        *)
(***************************************************************************)
C8_FilterLowerCasedKey ==
    op.name = "filter" =>
        /\ DOMAIN filtered \subseteq DOMAIN settings
        /\ \A k \in DOMAIN settings :
              /\ k \in DOMAIN filtered
                    <=> \E i \in DOMAIN categories :
                            contains(to_lowercase(k), categories[i])
              /\ k \in DOMAIN filtered => filtered[k] = settings[k]
        /\ categories = << >> => filtered = EmptyMap

\* the filter kept a key for its lower-cased form and dropped another key
C8_Witness ==
    /\ op.name = "filter"
    /\ FOV \in DOMAIN filtered
    /\ \E k \in DOMAIN settings : k \notin DOMAIN filtered

(***************************************************************************)
(* C9.  A document that cannot be read, or is no settings document, is     *)
(* fatal and changes nothing: the import fails and no file changes.        *)
(***************************************************************************)
C9_MalformedDocumentChangesNothing ==
    [][(ImportRan /\ ~IsSettingsDocument(op'.json))
       => /\ disk' = disk
          /\ op'.written = {}
          /\ ~op'.ok
          /\ status_text'.msg = "Import failed"]_vars

\* an import of a JSON document with a number for a setting's value failed
C9_Witness ==
    /\ op.name = "import"
    /\ op.json.kind = "json"
    /\ ~IsSettingsDocument(op.json)
    /\ status_text.msg = "Import failed"

(***************************************************************************)
(* C10.  The text import writes does not depend on the order in which the  *)
(* keys of the section are processed.                                      *)
(***************************************************************************)
C10_KeyOrderIrrelevant ==
    [][ImportRan
       => \A p \in op'.written :
            \A order \in Orders(DOMAIN SectionOf(op'.json, p)) :
                disk'[p] = Merged(disk[p], SectionOf(op'.json, p), order)]_vars

=============================================================================
